---- MODULE Spec2Model ----
(***************************************************************************)
(* A model of the OBJ mesh loader (OBJLoader) and of the interactive       *)
(* camera / scene-node controller (WebGlApp).                              *)
(*                                                                         *)
(* Text is modelled as sequences of one-character strings, so that         *)
(* splitting, trimming and number parsing are computed, not assumed.       *)
(* Numbers of the loader are exact rationals <<n, d>> in lowest terms with *)
(* the IEEE specials NaN = <<0,0>>, +Infinity = <<1,0>>, -Infinity =       *)
(* <<-1,0>>.  Numbers of the controller are fixed-point integers, Unit to   *)
(* 1.0, every product and quotient rounded to the nearest integer; vectors *)
(* are triples and matrices are 16-tuples in gl-matrix's column-major      *)
(* order.                                                                  *)
(***************************************************************************)
EXTENDS Integers, Sequences, FiniteSets, TLC

VARIABLES
    file,       \* the OBJ document behind this.filename: a sequence of line records
    result,     \* what OBJLoader.load() gave back, or a pending marker
    eye,        \* this.eye
    center,     \* this.center
    forward,    \* this.forward
    right,      \* this.right
    up,         \* this.up
    view,       \* this.view
    sink,       \* the shader's uniform sink: the setUniform4x4f calls so far
    scene,      \* this.scene: the selected node's transformation, or NoScene
    frame,      \* the last frame: its inputs, the state it started from, the modes it ran
    frames      \* the number of frames so far

loaderVars == <<file, result>>

appVars == <<eye, center, forward, right, up, view, sink, scene, frame, frames>>

vars == <<file, result, eye, center, forward, right, up, view, sink, scene, frame, frames>>

(***************************************************************************)
(* Bounds of the model.                                                    *)
(***************************************************************************)
MaxLines == 3

MaxFrames == 2

(***************************************************************************)
(* JavaScript numbers (exact rationals with NaN and infinities).           *)
(***************************************************************************)
NaN == <<0, 0>>

Abs(x) == IF x < 0 THEN -x ELSE x

Sign(x) == IF x < 0 THEN -1 ELSE IF x > 0 THEN 1 ELSE 0

RECURSIVE GCD(_, _)
GCD(a, b) == IF b = 0 THEN a ELSE GCD(b, a % b)

\* the rational n/d in lowest terms with a positive denominator; d = 0 gives
\* NaN or an infinity by the sign of n
Mk(n, d) ==
    IF d = 0 THEN <<Sign(n), 0>>
    ELSE LET g == GCD(Abs(n), Abs(d))
             s == Sign(d)
         IN  <<(s * n) \div g, (s * d) \div g>>

Num(i) == <<i, 1>>

IsNaN(a) == a = NaN

IsFinite(a) == a[2] # 0

IsInteger(a) == a[2] = 1

JsAdd(a, b) ==
    IF IsNaN(a) \/ IsNaN(b) THEN NaN
    ELSE IF a[2] = 0 /\ b[2] = 0 THEN (IF a[1] = b[1] THEN a ELSE NaN)
    ELSE IF a[2] = 0 THEN a
    ELSE IF b[2] = 0 THEN b
    ELSE Mk(a[1] * b[2] + b[1] * a[2], a[2] * b[2])

JsNeg(a) == <<-a[1], a[2]>>

JsSub(a, b) == JsAdd(a, JsNeg(b))

\* a / b; the sign of a zero divisor is not tracked (x / 0 is +-Infinity by
\* the sign of x, 0 / 0 is NaN)
JsDiv(a, b) ==
    IF IsNaN(a) \/ IsNaN(b) THEN NaN
    ELSE IF a[2] = 0 /\ b[2] = 0 THEN NaN
    ELSE IF a[2] = 0 THEN <<a[1] * (IF b[1] < 0 THEN -1 ELSE 1), 0>>
    ELSE IF b[2] = 0 THEN Num(0)
    ELSE Mk(a[1] * b[2], a[2] * b[1])

JsLess(a, b) == a[1] * b[2] < b[1] * a[2]

MathMin(a, b) ==
    IF IsNaN(a) \/ IsNaN(b) THEN NaN ELSE IF JsLess(b, a) THEN b ELSE a

MathMax(a, b) ==
    IF IsNaN(a) \/ IsNaN(b) THEN NaN ELSE IF JsLess(a, b) THEN b ELSE a

(***************************************************************************)
(* JavaScript strings, as sequences of characters.                         *)
(***************************************************************************)
DigitChars == {"0", "1", "2", "3", "4", "5", "6", "7", "8", "9"}

DigitVal(c) ==
    CASE c = "0" -> 0 [] c = "1" -> 1 [] c = "2" -> 2 [] c = "3" -> 3
      [] c = "4" -> 4 [] c = "5" -> 5 [] c = "6" -> 6 [] c = "7" -> 7
      [] c = "8" -> 8 [] c = "9" -> 9

IsSpace(c) == c \in {" ", "\t", "\r"}

\* what reading a missing array element and using it as a string gives
UndefinedStr == <<"u", "n", "d", "e", "f", "i", "n", "e", "d">>

Drop(s, k) == SubSeq(s, k + 1, Len(s))

RECURSIVE TrimStart(_)
TrimStart(s) ==
    IF s # <<>> /\ IsSpace(s[1]) THEN TrimStart(Tail(s)) ELSE s

RECURSIVE TrimEnd(_)
TrimEnd(s) ==
    IF s # <<>> /\ IsSpace(s[Len(s)]) THEN TrimEnd(SubSeq(s, 1, Len(s) - 1)) ELSE s

\* String.prototype.trim
trim(s) == TrimEnd(TrimStart(s))

\* String.prototype.startsWith
startsWith(s, prefix) ==
    Len(s) >= Len(prefix) /\ SubSeq(s, 1, Len(prefix)) = prefix

RECURSIVE SplitFrom(_, _, _, _)
SplitFrom(s, sep, i, cur) ==
    IF i > Len(s) THEN <<cur>>
    ELSE IF s[i] = sep THEN <<cur>> \o SplitFrom(s, sep, i + 1, <<>>)
    ELSE SplitFrom(s, sep, i + 1, Append(cur, s[i]))

\* String.prototype.split with a one-character separator
split(s, sep) == SplitFrom(s, sep, 1, <<>>)

RECURSIVE SplitWsFrom(_, _, _)
SplitWsFrom(s, i, cur) ==
    IF i > Len(s) THEN <<cur>>
    ELSE IF IsSpace(s[i])
         THEN IF i > 1 /\ IsSpace(s[i - 1])
              THEN SplitWsFrom(s, i + 1, cur)
              ELSE <<cur>> \o SplitWsFrom(s, i + 1, <<>>)
    ELSE SplitWsFrom(s, i + 1, Append(cur, s[i]))

\* String.prototype.split(/\s+/)
splitWs(s) == SplitWsFrom(s, 1, <<>>)

\* the longest prefix of s made of decimal digits
RECURSIVE DigitPrefix(_)
DigitPrefix(s) ==
    IF s # <<>> /\ s[1] \in DigitChars
    THEN <<s[1]>> \o DigitPrefix(Tail(s))
    ELSE <<>>

RECURSIVE DigitsValue(_, _)
DigitsValue(ds, acc) ==
    IF ds = <<>> THEN acc ELSE DigitsValue(Tail(ds), 10 * acc + DigitVal(ds[1]))

RECURSIVE Pow10(_)
Pow10(k) == IF k = 0 THEN 1 ELSE 10 * Pow10(k - 1)

\* the global parseInt(string), radix 10: leading white space, an optional
\* sign, then the longest run of digits; NaN when there is no digit
parseInt(str) ==
    LET s    == TrimStart(str)
        neg  == s # <<>> /\ s[1] = "-"
        body == IF s # <<>> /\ s[1] \in {"-", "+"} THEN Tail(s) ELSE s
        ds   == DigitPrefix(body)
    IN  IF ds = <<>> THEN NaN
        ELSE Num((IF neg THEN -1 ELSE 1) * DigitsValue(ds, 0))

\* the global parseFloat(string): leading white space, an optional sign,
\* digits, an optional fraction; the longest such prefix is the value and
\* NaN when it holds no digit (exponents and "Infinity" are outside the
\* alphabet of the model)
parseFloat(str) ==
    LET s     == TrimStart(str)
        neg   == s # <<>> /\ s[1] = "-"
        body  == IF s # <<>> /\ s[1] \in {"-", "+"} THEN Tail(s) ELSE s
        ip    == DigitPrefix(body)
        rest  == Drop(body, Len(ip))
        fp    == IF rest # <<>> /\ rest[1] = "." THEN DigitPrefix(Tail(rest)) ELSE <<>>
        mag   == JsAdd(Num(DigitsValue(ip, 0)), Mk(DigitsValue(fp, 0), Pow10(Len(fp))))
    IN  IF ip = <<>> /\ fp = <<>> THEN NaN
        ELSE IF neg THEN JsNeg(mag) ELSE mag

\* parts[k] of a JavaScript array (0-based index k), as a string
StrAt(parts, k) == IF k + 1 <= Len(parts) THEN parts[k + 1] ELSE UndefinedStr

\* arr[k] of a JavaScript array of numbers (0-based index k), as the number
\* every arithmetic use converts it to: a missing element is undefined,
\* which converts to NaN
NumAt(arr, k) == IF k + 1 <= Len(arr) THEN arr[k + 1] ELSE NaN

(***************************************************************************)
(* OBJLoader                                                               *)
(***************************************************************************)
parseVertex(vertex_string) ==
    LET parts == splitWs(trim(vertex_string))
    IN  << parseFloat(StrAt(parts, 1)),
           parseFloat(StrAt(parts, 2)),
           parseFloat(StrAt(parts, 3)) >>

\* a quad split as a strip, along the other diagonal
triangulateFaceStrip(face) ==
    << face[1], face[2], face[3],
       face[2], face[3], face[4] >>

triangulateFace(face) ==
    << face[1], face[2], face[3],
       face[1], face[3], face[4] >>

parseFace(face_string) ==
    LET parts   == splitWs(trim(face_string))
        indices == [i \in 1..(Len(parts) - 1) |->
                      JsSub(parseInt(split(parts[i + 1], "/")[1]), Num(1))]
    IN  IF Len(indices) = 4 THEN triangulateFace(indices) ELSE indices

\* the parsing loop of load(): the vertices array after the lines from k on
RECURSIVE ParseVertices(_, _)
ParseVertices(lines, k) ==
    IF k > Len(lines) THEN <<>>
    ELSE LET line == trim(lines[k])
         IN  (IF startsWith(line, <<"v", " ">>) THEN parseVertex(line) ELSE <<>>)
             \o ParseVertices(lines, k + 1)

\* the parsing loop of load(): the indices array after the lines from k on
RECURSIVE ParseIndices(_, _)
ParseIndices(lines, k) ==
    IF k > Len(lines) THEN <<>>
    ELSE LET line == trim(lines[k])
         IN  (IF ~startsWith(line, <<"v", " ">>) /\ startsWith(line, <<"f", " ">>)
              THEN parseFace(line) ELSE <<>>)
             \o ParseIndices(lines, k + 1)

\* min[j] (or max[j]) after the bounding-box loop has visited the vertices
\* from the i-th triple on, starting from acc
RECURSIVE MinLoop(_, _, _, _)
MinLoop(vertices, j, i, acc) ==
    IF i >= Len(vertices) THEN acc
    ELSE MinLoop(vertices, j, i + 3, MathMin(acc, NumAt(vertices, i + j)))

RECURSIVE MaxLoop(_, _, _, _)
MaxLoop(vertices, j, i, acc) ==
    IF i >= Len(vertices) THEN acc
    ELSE MaxLoop(vertices, j, i + 3, MathMax(acc, NumAt(vertices, i + j)))

load(contents) ==
    LET lines    == split(contents, "\n")
        vertices == ParseVertices(lines, 1)
        indices  == ParseIndices(lines, 1)
        min      == [j \in 1..3 |-> MinLoop(vertices, j - 1, 0, NumAt(vertices, j - 1))]
        max      == [j \in 1..3 |-> MaxLoop(vertices, j - 1, 0, NumAt(vertices, j - 1))]
        boxCenter == [j \in 1..3 |-> JsDiv(JsAdd(max[j], min[j]), Num(2))]
        range    == MathMax(MathMax(JsSub(max[1], min[1]), JsSub(max[2], min[2])),
                            JsSub(max[3], min[3]))
        half     == JsDiv(range, Num(2))
    IN  [ status   |-> "returned",
          vertices |-> [i \in 1..Len(vertices) |->
                          JsDiv(JsSub(vertices[i], boxCenter[((i - 1) % 3) + 1]), half)],
          indices  |-> indices ]

(***************************************************************************)
(* OBJ documents.  A document is a sequence of line records; a record has  *)
(* a keyword, tokens, and a padding flag (leading blanks and doubled       *)
(* separators).  A token is a sequence of components written with "/"      *)
(* between them; a component is an integer written in decimal, a decimal   *)
(* fraction n / 10^e written with a point, or a raw string.                *)
(* loadExternalFile gives the document's text.                             *)
(***************************************************************************)
N(i) == [k |-> "n", n |-> i, e |-> 0, s |-> <<>>]

D(i, e) == [k |-> "d", n |-> i, e |-> e, s |-> <<>>]

S(cs) == [k |-> "s", n |-> 0, e |-> 0, s |-> cs]

RECURSIVE NatChars(_)
NatChars(i) ==
    LET d == <<"0", "1", "2", "3", "4", "5", "6", "7", "8", "9">>[(i % 10) + 1]
    IN  IF i < 10 THEN <<d>> ELSE NatChars(i \div 10) \o <<d>>

Decimal(i) == IF i < 0 THEN <<"-">> \o NatChars(-i) ELSE NatChars(i)

RECURSIVE ZeroPad(_, _)
ZeroPad(cs, width) == IF Len(cs) >= width THEN cs ELSE ZeroPad(<<"0">> \o cs, width)

Fraction(i, e) ==
    (IF i < 0 THEN <<"-">> ELSE <<>>)
    \o NatChars(Abs(i) \div Pow10(e)) \o <<".">> \o ZeroPad(NatChars(Abs(i) % Pow10(e)), e)

CompText(c) ==
    IF c.k = "n" THEN Decimal(c.n)
    ELSE IF c.k = "d" THEN Fraction(c.n, c.e)
    ELSE c.s

RECURSIVE TokenText(_)
TokenText(tok) ==
    IF tok = <<>> THEN <<>>
    ELSE IF Len(tok) = 1 THEN CompText(tok[1])
    ELSE CompText(tok[1]) \o <<"/">> \o TokenText(Tail(tok))

RECURSIVE TokensText(_, _)
TokensText(toks, gap) ==
    IF toks = <<>> THEN <<>>
    ELSE gap \o TokenText(toks[1]) \o TokensText(Tail(toks), gap)

LineText(rec) ==
    IF rec.pad = 1
    THEN <<" ", " ">> \o rec.kw \o TokensText(rec.toks, <<" ", " ">>) \o <<" ">>
    ELSE rec.kw \o TokensText(rec.toks, <<" ">>)

RECURSIVE DocText(_)
DocText(doc) ==
    IF doc = <<>> THEN <<>>
    ELSE IF Len(doc) = 1 THEN LineText(doc[1])
    ELSE LineText(doc[1]) \o <<"\n">> \o DocText(Tail(doc))

\* loadExternalFile(this.filename)
loadExternalFile(doc) == DocText(doc)

Line(kw, toks) == [kw |-> kw, toks |-> toks, pad |-> 0]

Padded(kw, toks) == [kw |-> kw, toks |-> toks, pad |-> 1]

Ints(seq) == [i \in DOMAIN seq |-> <<N(seq[i])>>]

VertexLines ==
    { Line(<<"v">>, Ints(<<0, 0, 0>>)),
      Line(<<"v">>, Ints(<<2, 0, 0>>)),
      Line(<<"v">>, << <<D(5, 1)>>, <<N(4)>>, <<D(-25, 2)>> >>),
      Padded(<<"v">>, Ints(<<0, 0, 0>>)),
      Line(<<"v">>, Ints(<<1, 2>>)),
      Line(<<"v">>, << <<N(1)>>, <<S(<<"a">>)>>, <<N(0)>> >>) }

FaceLines ==
    { Line(<<"f">>, Ints(<<1, 2, 3>>)),
      Line(<<"f">>, Ints(<<1, 2, 3, 4>>)),
      Line(<<"f">>, << <<N(5), N(12), N(3)>>, <<N(1), N(4)>>, <<N(2)>> >>),
      Padded(<<"f">>, << <<N(2), N(1)>>, <<N(3), N(1), N(1)>>, <<N(1)>>, <<N(12)>> >>),
      Line(<<"f">>, Ints(<<1, 2>>)),
      Line(<<"f">>, Ints(<<1, 2, 3, 4, 5>>)),
      Line(<<"f">>, Ints(<<0, -1, 2>>)),
      Line(<<"f">>, << <<S(<<>>), N(1)>>, <<S(<<"x">>)>>, <<N(2)>> >>) }

OtherLines ==
    { Line(<<"v", "n">>, Ints(<<0, 0, 1>>)) }

SampleLines == VertexLines \cup FaceLines \cup OtherLines

Documents == UNION { [1..n -> SampleLines] : n \in 0..MaxLines }

(***************************************************************************)
(* The loader as a state machine: a loader is constructed on a document,   *)
(* then load() runs.                                                       *)
(***************************************************************************)
Pending == [status |-> "pending", vertices |-> <<>>, indices |-> <<>>]

Load ==
    /\ result' = load(loadExternalFile(file))
    /\ UNCHANGED file
    /\ UNCHANGED appVars

(***************************************************************************)
(* Fixed-point arithmetic of the controller.                               *)
(***************************************************************************)
Unit == 10 * 10

\* n / d rounded to the nearest integer (d > 0)
RoundDiv(n, d) == (2 * n + d) \div (2 * d)

FMul(a, b) == RoundDiv(a * b, Unit)

FDiv(a, b) == IF b > 0 THEN RoundDiv(a * Unit, b) ELSE -RoundDiv(a * Unit, -b)

RECURSIVE SqrtSearch(_, _, _)
SqrtSearch(n, lo, hi) ==
    IF lo >= hi THEN lo
    ELSE LET mid == (lo + hi + 1) \div 2
         IN  IF mid * mid <= n THEN SqrtSearch(n, mid, hi) ELSE SqrtSearch(n, lo, mid - 1)

\* the square root of n, rounded to the nearest integer
Sqrt(n) ==
    LET r == SqrtSearch(n, 0, IF n < 46340 THEN n ELSE 46340)
    IN  IF n - r * r > r THEN r + 1 ELSE r

\* Math.sin and Math.cos by their Taylor polynomials (angles in radians,
\* within a turn of 0)
MathSin(a) ==
    LET a2 == FMul(a, a)
        a3 == FMul(a2, a)
        a5 == FMul(a3, a2)
        a7 == FMul(a5, a2)
        a9 == FMul(a7, a2)
    IN  a - RoundDiv(a3, 6) + RoundDiv(a5, 120) - RoundDiv(a7, 5040) + RoundDiv(a9, 362880)

MathCos(a) ==
    LET a2 == FMul(a, a)
        a4 == FMul(a2, a2)
        a6 == FMul(a4, a2)
        a8 == FMul(a6, a2)
    IN  Unit - RoundDiv(a2, 2) + RoundDiv(a4, 24) - RoundDiv(a6, 720) + RoundDiv(a8, 40320)

(***************************************************************************)
(* gl-matrix: vec3                                                         *)
(***************************************************************************)
Vec3Create == <<0, 0, 0>>

Vec3Sub(a, b) == <<a[1] - b[1], a[2] - b[2], a[3] - b[3]>>

Vec3Add(a, b) == <<a[1] + b[1], a[2] + b[2], a[3] + b[3]>>

\* vec3.scaleAndAdd: a + b * scale
Vec3ScaleAndAdd(a, b, scale) ==
    <<a[1] + FMul(b[1], scale), a[2] + FMul(b[2], scale), a[3] + FMul(b[3], scale)>>

Vec3Dot(a, b) == a[1] * b[1] + a[2] * b[2] + a[3] * b[3]

\* the length of a, in fixed point
Vec3Length(a) == Sqrt(Vec3Dot(a, a))

\* vec3.normalize: the zero vector stays zero
Vec3Normalize(a) ==
    LET len == Vec3Length(a)
    IN  IF len > 0 THEN <<FDiv(a[1], len), FDiv(a[2], len), FDiv(a[3], len)>>
        ELSE <<0, 0, 0>>

Vec3Cross(a, b) ==
    << FMul(a[2], b[3]) - FMul(a[3], b[2]),
       FMul(a[3], b[1]) - FMul(a[1], b[3]),
       FMul(a[1], b[2]) - FMul(a[2], b[1]) >>

\* vec3.transformMat4: m * (a, 1), divided by w (a zero w counts as 1)
Vec3TransformMat4(a, m) ==
    LET w0 == FMul(m[4], a[1]) + FMul(m[8], a[2]) + FMul(m[12], a[3]) + m[16]
        w  == IF w0 = 0 THEN Unit ELSE w0
    IN  << FDiv(FMul(m[1], a[1]) + FMul(m[5], a[2]) + FMul(m[9], a[3]) + m[13], w),
           FDiv(FMul(m[2], a[1]) + FMul(m[6], a[2]) + FMul(m[10], a[3]) + m[14], w),
           FDiv(FMul(m[3], a[1]) + FMul(m[7], a[2]) + FMul(m[11], a[3]) + m[15], w) >>

(***************************************************************************)
(* gl-matrix: mat4                                                         *)
(***************************************************************************)
Mat4Create ==
    << Unit, 0, 0, 0,
       0, Unit, 0, 0,
       0, 0, Unit, 0,
       0, 0, 0, Unit >>

\* mat4.multiply: a * b, column-major (entry (row r, column c) at 4c + r)
\* (the operands are evaluated once, as x and y)
Mat4Multiply(a, b) ==
    LET Product(x, y) ==
            [i \in 1..16 |->
                LET r == (i - 1) % 4
                    c == (i - 1) \div 4
                IN  FMul(x[r + 1], y[4 * c + 1]) + FMul(x[r + 5], y[4 * c + 2])
                    + FMul(x[r + 9], y[4 * c + 3]) + FMul(x[r + 13], y[4 * c + 4])]
    IN  CHOOSE m \in { Product(x, y) : x \in {a}, y \in {b} } : TRUE

Mat4FromTranslation(v) ==
    << Unit, 0, 0, 0,
       0, Unit, 0, 0,
       0, 0, Unit, 0,
       v[1], v[2], v[3], Unit >>

Mat4FromScaling(v) ==
    << v[1], 0, 0, 0,
       0, v[2], 0, 0,
       0, 0, v[3], 0,
       0, 0, 0, Unit >>

\* mat4.fromRotation(out, rad, axis) on out = mat4.create(): an axis of
\* length zero returns null and leaves out the identity
Mat4FromRotation(rad, axis) ==
    LET len == Vec3Length(axis)
        x   == FDiv(axis[1], len)
        y   == FDiv(axis[2], len)
        z   == FDiv(axis[3], len)
        s   == MathSin(rad)
        c   == MathCos(rad)
        t   == Unit - c
    IN  IF len = 0 THEN Mat4Create
        ELSE << FMul(FMul(x, x), t) + c,
                FMul(FMul(y, x), t) + FMul(z, s),
                FMul(FMul(z, x), t) - FMul(y, s),
                0,
                FMul(FMul(x, y), t) - FMul(z, s),
                FMul(FMul(y, y), t) + c,
                FMul(FMul(z, y), t) + FMul(x, s),
                0,
                FMul(FMul(x, z), t) + FMul(y, s),
                FMul(FMul(y, z), t) - FMul(x, s),
                FMul(FMul(z, z), t) + c,
                0,
                0, 0, 0, Unit >>

\* mat4.lookAt(out, eye, center, up): the identity when eye and center
\* coincide
Mat4LookAt(e, c, u) ==
    LET z  == Vec3Normalize(Vec3Sub(e, c))
        x  == Vec3Normalize(Vec3Cross(u, z))
        y  == Vec3Normalize(Vec3Cross(z, x))
    IN  IF e = c THEN Mat4Create
        ELSE << x[1], y[1], z[1], 0,
                x[2], y[2], z[2], 0,
                x[3], y[3], z[3], 0,
                -RoundDiv(Vec3Dot(x, e), Unit), -RoundDiv(Vec3Dot(y, e), Unit),
                -RoundDiv(Vec3Dot(z, e), Unit), Unit >>

\* mat4.perspective(out, deg2rad(60), 16/9, 0.1, 100.0): f = 1 / tan(30 deg),
\* nf = 1 / (near - far)
Mat4Perspective ==
    LET f  == RoundDiv(173205 * Unit, 100000)
        nf == FDiv(Unit, RoundDiv(Unit, 10) - 100 * Unit)
    IN  << FDiv(f, RoundDiv(16 * Unit, 9)), 0, 0, 0,
           0, f, 0, 0,
           0, 0, FMul(100 * Unit + RoundDiv(Unit, 10), nf), -Unit,
           0, 0, FMul(FMul(2 * 100 * Unit, RoundDiv(Unit, 10)), nf), 0 >>

(***************************************************************************)
(* Input: the polled state of the pointer and the keyboard in one frame,   *)
(* with the frame's delta_time.                                            *)
(***************************************************************************)
NoInput == [buttons |-> {}, space |-> FALSE, dx |-> 0, dy |-> 0, dt |-> 0]

\* pointer deltas (pixels) and frame times (seconds, fixed point)
Motions ==
    { [dx |-> 1, dy |-> 1, dt |-> Unit \div 2],
      [dx |-> -1, dy |-> -2, dt |-> Unit \div 2],
      [dx |-> 2, dy |-> -1, dt |-> Unit \div 2],
      [dx |-> -1, dy |-> -1, dt |-> Unit \div 4] }

Inputs ==
    { [buttons |-> b, space |-> k, dx |-> m.dx, dy |-> m.dy, dt |-> m.dt] :
        b \in SUBSET {0, 1, 2}, k \in BOOLEAN, m \in Motions }

isMouseDown(in, button) == button \in in.buttons

isKeyDown(in) == in.space

(***************************************************************************)
(* WebGlApp                                                                *)
(***************************************************************************)
NoScene == [loaded |-> FALSE, transformation |-> Mat4Create]

\* updateViewSpaceVectors, from this.eye and this.center
ViewSpaceVectors(e, c) ==
    LET f == Vec3Normalize(Vec3Sub(e, c))
        r == Vec3Normalize(Vec3Cross(<<0, Unit, 0>>, f))
        u == Vec3Normalize(Vec3Cross(f, r))
    IN  [forward |-> f, right |-> r, up |-> u]

\* the conditions of the three interactions
ZoomCondition(in) == isMouseDown(in, 2)

RotateCondition(in) == isMouseDown(in, 0) /\ ~isKeyDown(in)

PanCondition(in) == isMouseDown(in, 1) \/ (isMouseDown(in, 0) /\ isKeyDown(in))

\* zoom that scales the direction by 1 - dy * zoomSpeed
CameraZoomInverted(c, in) ==
    LET zoomSpeed   == 2 * in.dt
        direction   == Vec3Sub(c.eye, c.center)
        scaleFactor == Unit - in.dy * zoomSpeed
    IN  [c EXCEPT !.eye = Vec3ScaleAndAdd(c.center, direction, scaleFactor),
                  !.modes = Append(@, "zoom")]

\* Control - Zoom (camera).  c holds this.eye, this.center, this.right and
\* this.up as the interaction blocks see them, and the modes run so far
CameraZoom(c, in) ==
    LET zoomSpeed   == 2 * in.dt
        direction   == Vec3Sub(c.eye, c.center)
        scaleFactor == Unit + in.dy * zoomSpeed
    IN  [c EXCEPT !.eye = Vec3ScaleAndAdd(c.center, direction, scaleFactor),
                  !.modes = Append(@, "zoom")]

\* Control - Rotate (camera)
CameraRotate(c, in) ==
    LET sensitivity == 2 * in.dt
        offset0     == Vec3Sub(c.eye, c.center)
        rotationY   == Mat4FromRotation(-in.dx * sensitivity, c.up)
        offset1     == Vec3TransformMat4(offset0, rotationY)
        rotationX   == Mat4FromRotation(-in.dy * sensitivity, c.right)
        offset2     == Vec3TransformMat4(offset1, rotationX)
    IN  [c EXCEPT !.eye = Vec3Add(c.center, offset2),
                  !.modes = Append(@, "rotate")]

\* pan that moves the eye and leaves the center behind
CameraPanEyeOnly(c, in) ==
    LET panSpeed == 2 * in.dt
        p1       == Vec3ScaleAndAdd(Vec3Create, c.right, -in.dx * panSpeed)
        p        == Vec3ScaleAndAdd(p1, c.up, in.dy * panSpeed)
    IN  [c EXCEPT !.eye = Vec3Add(c.eye, p),
                  !.modes = Append(@, "pan")]

\* Control - Pan (camera)
CameraPan(c, in) ==
    LET panSpeed == 2 * in.dt
        p1       == Vec3ScaleAndAdd(Vec3Create, c.right, -in.dx * panSpeed)
        p        == Vec3ScaleAndAdd(p1, c.up, in.dy * panSpeed)
    IN  [c EXCEPT !.eye = Vec3Add(c.eye, p),
                  !.center = Vec3Add(c.center, p),
                  !.modes = Append(@, "pan")]

\* the three interaction blocks as an else-if chain: one mode per frame
CameraModesExclusive(c, in) ==
    IF ZoomCondition(in) THEN CameraZoom(c, in)
    ELSE IF RotateCondition(in) THEN CameraRotate(c, in)
    ELSE IF PanCondition(in) THEN CameraPan(c, in)
    ELSE c

\* the three interaction blocks of updateCamera, in their order
CameraModes(c, in) ==
    LET c1 == IF ZoomCondition(in) THEN CameraZoom(c, in) ELSE c
        c2 == IF RotateCondition(in) THEN CameraRotate(c1, in) ELSE c1
        c3 == IF PanCondition(in) THEN CameraPan(c2, in) ELSE c2
    IN  c3

FrameRecord(op, in, modes) ==
    [ op |-> op, input |-> in, eye |-> eye, center |-> center,
      forward |-> forward, right |-> right, up |-> up, view |-> view, sink |-> sink,
      transformation |-> scene.transformation, modes |-> modes ]

\* a frame that redraws the view whether or not anything moved
ViewDirtyAlways(modes) == TRUE

\* view_dirty after the three interaction blocks: some block ran
ViewDirty(modes) == modes # <<>>

\* update() with Control = 'Camera': updateCamera(delta_time).  c is the
\* camera after the interaction blocks; basis and lookAt are what the
\* view_dirty block computes from it
UpdateCamera(in) ==
    /\ frames < MaxFrames
    /\ \E c \in {CameraModes([eye |-> eye, center |-> center, right |-> right,
                               up |-> up, modes |-> <<>>], in)} :
       \E basis \in {ViewSpaceVectors(c.eye, c.center)} :
       \E lookAt \in {Mat4LookAt(c.eye, c.center, basis.up)} :
        LET view_dirty == ViewDirty(c.modes)
        IN  /\ eye' = c.eye
            /\ center' = c.center
            /\ forward' = IF view_dirty THEN basis.forward ELSE forward
            /\ right' = IF view_dirty THEN basis.right ELSE right
            /\ up' = IF view_dirty THEN basis.up ELSE up
            /\ view' = IF view_dirty THEN lookAt ELSE view
            /\ sink' = IF view_dirty THEN Append(sink, [slot |-> "u_v", value |-> lookAt])
                       ELSE sink
            /\ frame' = FrameRecord("camera", in, c.modes)
            /\ frames' = frames + 1
            /\ UNCHANGED <<scene, file, result>>

\* the matrices of the three interactions of updateSceneNode
NodeScale(in) ==
    LET s == Unit + in.dy * in.dt
    IN  IF ZoomCondition(in) THEN Mat4FromScaling(<<s, s, s>>) ELSE Mat4Create

NodeRotation(in) ==
    LET sensitivity == 2 * in.dt
        rotY        == Mat4FromRotation(in.dx * sensitivity, up)
        rotX        == Mat4FromRotation(in.dy * sensitivity, right)
    IN  IF RotateCondition(in) THEN Mat4Multiply(rotY, rotX) ELSE Mat4Create

NodeTranslation(in) ==
    LET speed == 5 * in.dt
        t1    == Vec3ScaleAndAdd(Vec3Create, right, in.dx * speed)
        t     == Vec3ScaleAndAdd(t1, up, -in.dy * speed)
    IN  IF PanCondition(in) THEN Mat4FromTranslation(t) ELSE Mat4Create

NodeModes(in) ==
    (IF ZoomCondition(in) THEN <<"scale">> ELSE <<>>)
    \o (IF RotateCondition(in) THEN <<"rotate">> ELSE <<>>)
    \o (IF PanCondition(in) THEN <<"translate">> ELSE <<>>)

\* scale applied on the left, after the rotation
ComposeNodeScaleFirst(transformation, translation, rotation, scale) ==
    LET t1 == Mat4Multiply(translation, transformation)
        t2 == Mat4Multiply(rotation, t1)
        t3 == Mat4Multiply(scale, t2)
    IN  t3

\* the three multiplications applied to the node's transformation
ComposeNode(transformation, translation, rotation, scale) ==
    LET t1 == Mat4Multiply(translation, transformation)
        t2 == Mat4Multiply(rotation, t1)
        t3 == Mat4Multiply(t2, scale)
    IN  t3

\* update() with Control = 'Scene Node' and a scene loaded:
\* updateSceneNode(scene_node, delta_time)
UpdateSceneNode(in) ==
    /\ frames < MaxFrames
    /\ scene.loaded
    /\ \E translation \in {NodeTranslation(in)} :
       \E rotation \in {NodeRotation(in)} :
       \E scale \in {NodeScale(in)} :
        LET node_dirty == NodeModes(in) # <<>>
        IN  /\ scene' = IF node_dirty
                        THEN [scene EXCEPT !.transformation =
                                ComposeNode(@, translation, rotation, scale)]
                        ELSE scene
            /\ frame' = FrameRecord("node", in, NodeModes(in))
            /\ frames' = frames + 1
            /\ UNCHANGED <<eye, center, forward, right, up, view, sink, file, result>>

\* the transformations a scene file gives the selected node
NodeTransforms ==
    { Mat4Create,
      Mat4FromTranslation(<<Unit, -2 * Unit, Unit \div 2>>),
      Mat4Multiply(Mat4FromTranslation(<<0, Unit, 0>>), Mat4FromScaling(<<2 * Unit, Unit, Unit>>)) }

\* the onOpen3DScene callback: a scene file is opened (explored up to the
\* last frame)
OpenScene ==
    /\ frames < MaxFrames
    /\ \E t \in NodeTransforms : scene' = [loaded |-> TRUE, transformation |-> t]
    /\ frame' = FrameRecord("open", NoInput, <<>>)
    /\ UNCHANGED <<eye, center, forward, right, up, view, sink, frames, file, result>>

(***************************************************************************)
(* The state after construction.                                           *)
(***************************************************************************)
InitEye == <<2 * Unit, Unit \div 2, -2 * Unit>>

InitApp ==
    /\ eye = InitEye
    /\ center = <<0, 0, 0>>
    /\ forward = ViewSpaceVectors(InitEye, <<0, 0, 0>>).forward
    /\ right = ViewSpaceVectors(InitEye, <<0, 0, 0>>).right
    /\ up = ViewSpaceVectors(InitEye, <<0, 0, 0>>).up
    /\ view = Mat4LookAt(InitEye, <<0, 0, 0>>, ViewSpaceVectors(InitEye, <<0, 0, 0>>).up)
    /\ sink = << [slot |-> "u_v",
                  value |-> Mat4LookAt(InitEye, <<0, 0, 0>>,
                                       ViewSpaceVectors(InitEye, <<0, 0, 0>>).up)],
                 [slot |-> "u_p", value |-> Mat4Perspective] >>
    /\ scene = NoScene
    /\ frame = [ op |-> "none", input |-> NoInput, eye |-> InitEye, center |-> <<0, 0, 0>>,
                 forward |-> <<0, 0, 0>>, right |-> <<0, 0, 0>>, up |-> <<0, 0, 0>>,
                 view |-> Mat4Create, sink |-> <<>>,
                 transformation |-> Mat4Create, modes |-> <<>> ]
    /\ frames = 0

\* the camera controller: frames of updateCamera
Init ==
    /\ InitApp
    /\ file = <<>>
    /\ result = Pending

Next == \E in \in Inputs : UpdateCamera(in)

Spec == Init /\ [][Next]_vars

\* the node controller: a scene is opened, the camera is moved, the node is
\* edited
CameraMoves ==
    { in \in Inputs : in.dx = 1 /\ in.buttons \in {{0}, {2}} /\ ~in.space }

NodeInputs == { in \in Inputs : in.dx * in.dy = 1 /\ (in.dx = 1 \/ ~in.space) }

NextNode ==
    \/ OpenScene
    \/ \E in \in CameraMoves : UpdateCamera(in)
    \/ \E in \in NodeInputs : UpdateSceneNode(in)

SpecNode == Init /\ [][NextNode]_vars

\* the loader: a loader is constructed on a document, then load() runs
InitLoad ==
    /\ InitApp
    /\ file \in Documents
    /\ result = Pending

NextLoad == Load

SpecLoad == InitLoad /\ [][NextLoad]_vars

(***************************************************************************)
(* What a document says, read off its records (not off its text).          *)
(***************************************************************************)
Returned == result.status = "returned"

\* the triangle indices and the vertex count of the result
VertexCount == Len(result.vertices) \div 3

IsVertexRec(rec) == rec.kw = <<"v">> /\ rec.toks # <<>>

IsFaceRec(rec) == rec.kw = <<"f">> /\ rec.toks # <<>>

NumericToken(tok) == Len(tok) = 1 /\ tok[1].k \in {"n", "d"}

TokenValue(tok) == Mk(tok[1].n, Pow10(tok[1].e))

WellFormedVertex(rec) ==
    /\ IsVertexRec(rec)
    /\ Len(rec.toks) >= 3
    /\ \A i \in 1..3 : NumericToken(rec.toks[i])

\* the position a vertex record states; a missing or non-numeric coordinate
\* has no value (NaN)
Coordinates(rec) ==
    [i \in 1..3 |->
        IF i <= Len(rec.toks) /\ NumericToken(rec.toks[i])
        THEN TokenValue(rec.toks[i]) ELSE NaN]

\* a reference v, v/vt or v/vt/vn of integers with v positive
WellFormedRef(tok) ==
    /\ Len(tok) \in 1..3
    /\ \A i \in 1..Len(tok) : tok[i].k = "n"
    /\ tok[1].n > 0

WellFormedFace(rec) ==
    /\ IsFaceRec(rec)
    /\ Len(rec.toks) \in {3, 4}
    /\ \A i \in 1..Len(rec.toks) : WellFormedRef(rec.toks[i])

MalformedRecord(rec) ==
    \/ IsVertexRec(rec) /\ ~WellFormedVertex(rec)
    \/ IsFaceRec(rec) /\ \E i \in 1..Len(rec.toks) : rec.toks[i][1].k # "n"

VertexRecs(doc) == SelectSeq(doc, IsVertexRec)

FaceRecs(doc) == SelectSeq(doc, IsFaceRec)

\* no vertex at all, or every vertex at the same position
Degenerate(doc) ==
    LET vs == VertexRecs(doc)
    IN  \/ vs = <<>>
        \/ /\ \A i \in 1..Len(vs) : WellFormedVertex(vs[i])
           /\ \A i, j \in 1..Len(vs) : Coordinates(vs[i]) = Coordinates(vs[j])

TwoDistinctVertices(doc) ==
    LET vs == VertexRecs(doc)
    IN  \E i, j \in 1..Len(vs) :
           /\ WellFormedVertex(vs[i]) /\ WellFormedVertex(vs[j])
           /\ Coordinates(vs[i]) # Coordinates(vs[j])

\* the indices a well-formed face of 3 or 4 references stands for
ExpectedFace(rec) ==
    LET v(i) == Num(rec.toks[i][1].n - 1)
    IN  IF Len(rec.toks) = 3 THEN <<v(1), v(2), v(3)>>
        ELSE <<v(1), v(2), v(3), v(1), v(3), v(4)>>

RECURSIVE ExpectedIndices(_)
ExpectedIndices(faces) ==
    IF faces = <<>> THEN <<>>
    ELSE ExpectedFace(faces[1]) \o ExpectedIndices(Tail(faces))

(***************************************************************************)
(* C2.  Every value of the returned triangleIndices is an integer >= 0 and *)
(* < (number of returned positions) / 3, whatever the faces reference.     *)
(* The code validates nothing, so this is violated.                        *)
(***************************************************************************)
C2_IndicesInRange ==
    Returned =>
        \A i \in 1..Len(result.indices) :
            /\ IsInteger(result.indices[i])
            /\ result.indices[i][1] >= 0
            /\ result.indices[i][1] < VertexCount

(***************************************************************************)
(* C3.  load on a degenerate mesh (no vertex line, or all vertices         *)
(* coincident) fails with an error and returns no positions or indices.    *)
(* The code returns, with an empty or an all-NaN position array.           *)
(***************************************************************************)
C3_DegenerateMeshFails ==
    (result # Pending /\ Degenerate(file)) =>
        /\ result.status = "error"
        /\ result.vertices = <<>>
        /\ result.indices = <<>>

(***************************************************************************)
(* C4.  A document with a malformed vertex or face record fails the whole  *)
(* load; no NaN coordinate or index reaches the output.  The code returns  *)
(* the NaN values.                                                         *)
(***************************************************************************)
C4_MalformedRecordFails ==
    (result # Pending /\ \E k \in 1..Len(file) : MalformedRecord(file[k])) =>
        result.status = "error"

(***************************************************************************)
(* C5.  The length of the returned triangleIndices is a multiple of 3.     *)
(* The code appends the raw indices of faces of 1, 2 or >= 5 references.   *)
(***************************************************************************)
C5_IndexCountMultipleOf3 ==
    Returned => Len(result.indices) % 3 = 0

(***************************************************************************)
(* C6.  A face line of 3 or 4 references v, v/vt or v/vt/vn with v a       *)
(* positive integer parses to the first components minus one: (a,b,c)      *)
(* gives [a-1,b-1,c-1] and (a,b,c,d) gives [a-1,b-1,c-1,a-1,c-1,d-1]; and  *)
(* load appends the faces' indices in the order of the lines.              *)
(***************************************************************************)
C6_FaceIndices ==
    Returned =>
        /\ \A k \in 1..Len(file) :
              WellFormedFace(file[k]) =>
                  parseFace(LineText(file[k])) = ExpectedFace(file[k])
        /\ (\A k \in 1..Len(file) : IsFaceRec(file[k]) => WellFormedFace(file[k]))
              => result.indices = ExpectedIndices(FaceRecs(file))

\* a quad with attribute components followed by a triangle, both loaded
C6_Witness ==
    /\ Returned
    /\ Len(FaceRecs(file)) = 2
    /\ WellFormedFace(FaceRecs(file)[1]) /\ Len(FaceRecs(file)[1].toks) = 4
    /\ \E i \in 1..4 : Len(FaceRecs(file)[1].toks[i]) = 3
    /\ WellFormedFace(FaceRecs(file)[2]) /\ Len(FaceRecs(file)[2].toks) = 3
    /\ Len(result.indices) = 9
    /\ result.indices = ExpectedIndices(FaceRecs(file))

(***************************************************************************)
(* C10.  For a document with at least two distinct vertices the returned   *)
(* positions keep the order of the vertex lines, each coordinate is        *)
(* (coord - center[axis]) / (range / 2) for the bounding box of the        *)
(* vertices, the box of the result is centred on the origin and its        *)
(* largest span is exactly 2.                                              *)
(***************************************************************************)
RECURSIVE Least(_, _)
Least(seq, acc) ==
    IF seq = <<>> THEN acc ELSE Least(Tail(seq), MathMin(acc, seq[1]))

RECURSIVE Greatest(_, _)
Greatest(seq, acc) ==
    IF seq = <<>> THEN acc ELSE Greatest(Tail(seq), MathMax(acc, seq[1]))

\* the smallest (largest) value on an axis of a flat position array
AxisMin(ps, a) ==
    Least([i \in 1..(Len(ps) \div 3) |-> ps[3 * (i - 1) + a]], ps[a])

AxisMax(ps, a) ==
    Greatest([i \in 1..(Len(ps) \div 3) |-> ps[3 * (i - 1) + a]], ps[a])

Normalized(doc, ps) ==
    LET vs   == VertexRecs(doc)
        raw  == [i \in 1..(3 * Len(vs)) |->
                    Coordinates(vs[((i - 1) \div 3) + 1])[((i - 1) % 3) + 1]]
        lo   == [a \in 1..3 |-> AxisMin(raw, a)]
        hi   == [a \in 1..3 |-> AxisMax(raw, a)]
        span == Greatest([a \in 1..3 |-> JsSub(hi[a], lo[a])], Num(0))
    IN  /\ Len(ps) = 3 * Len(vs)
        /\ \A i \in 1..Len(ps) :
              LET a == ((i - 1) % 3) + 1
              IN  ps[i] = JsDiv(JsSub(raw[i], JsDiv(JsAdd(lo[a], hi[a]), Num(2))),
                                JsDiv(span, Num(2)))
        /\ \A a \in 1..3 : JsAdd(AxisMin(ps, a), AxisMax(ps, a)) = Num(0)
        /\ Greatest([a \in 1..3 |-> JsSub(AxisMax(ps, a), AxisMin(ps, a))], Num(0))
              = Num(2)

C10_Normalized ==
    (Returned /\ TwoDistinctVertices(file)) => Normalized(file, result.vertices)

\* the same, for the documents all of whose vertex lines are well formed
NormalizedWhenWellFormed ==
    (/\ Returned
     /\ TwoDistinctVertices(file)
     /\ \A k \in 1..Len(file) : IsVertexRec(file[k]) => WellFormedVertex(file[k]))
        => Normalized(file, result.vertices)

(***************************************************************************)
(* The last frame, read off the frame record: the state it started from    *)
(* and its inputs.                                                         *)
(***************************************************************************)
CameraFrame == frame.op = "camera"

NodeFrame == frame.op = "node"

\* eye - center before and after the frame
OffsetBefore == Vec3Sub(frame.eye, frame.center)

OffsetAfter == Vec3Sub(eye, center)

\* the pan vector -dx * panSpeed * right + dy * panSpeed * up of the frame
PanVector ==
    Vec3ScaleAndAdd(
        Vec3ScaleAndAdd(<<0, 0, 0>>, frame.right, -frame.input.dx * (2 * frame.input.dt)),
        frame.up, frame.input.dy * (2 * frame.input.dt))

\* the zoom factor 1 + dy * zoomSpeed of the frame
ZoomFactor == Unit + frame.input.dy * (2 * frame.input.dt)

\* the modes whose conditions hold in the frame, in the order zoom, rotate, pan
ModesThatHold ==
    (IF 2 \in frame.input.buttons THEN <<"zoom">> ELSE <<>>)
    \o (IF 0 \in frame.input.buttons /\ ~frame.input.space THEN <<"rotate">> ELSE <<>>)
    \o (IF 1 \in frame.input.buttons \/ (0 \in frame.input.buttons /\ frame.input.space)
        THEN <<"pan">> ELSE <<>>)

HoldsInFrame(mode) == \E i \in 1..Len(ModesThatHold) : ModesThatHold[i] = mode

(***************************************************************************)
(* C1 as stated.  In every updateCamera frame at most one of zoom, rotate  *)
(* and pan modifies eye / center: the highest-priority mode whose          *)
(* condition holds, in the order zoom, rotate, pan.                        *)
(***************************************************************************)
C1_OneModePerFrame ==
    CameraFrame =>
        /\ Len(frame.modes) <= 1
        /\ frame.modes = SubSeq(ModesThatHold, 1, IF ModesThatHold = <<>> THEN 0 ELSE 1)
        /\ (HoldsInFrame("zoom") => center = frame.center)

(***************************************************************************)
(* C1 as amended.  In every updateCamera frame every mode whose condition  *)
(* holds is applied, in the order zoom, rotate, pan; so with the secondary *)
(* and the middle button held zoom moves eye about the old center and pan  *)
(* then moves both by the pan vector.                                      *)
(***************************************************************************)
C1_EveryModeThatHolds ==
    CameraFrame =>
        /\ frame.modes = ModesThatHold
        /\ (ModesThatHold = <<"zoom", "pan">> =>
               /\ center = Vec3Add(frame.center, PanVector)
               /\ eye = Vec3Add(Vec3ScaleAndAdd(frame.center, OffsetBefore, ZoomFactor),
                                PanVector))
        /\ (ModesThatHold = <<>> => eye = frame.eye /\ center = frame.center)

\* a frame in which zoom and pan both acted
C1_Witness ==
    /\ CameraFrame
    /\ frame.modes = <<"zoom", "pan">>
    /\ center # frame.center
    /\ OffsetAfter # OffsetBefore

(***************************************************************************)
(* C7 as stated.  In every updateCamera frame in which pan's condition     *)
(* holds, whatever else is held, eye and center are both translated by the *)
(* pan vector, so eye - center is the same after the frame as before.      *)
(***************************************************************************)
C7_PanKeepsOffset ==
    (CameraFrame /\ HoldsInFrame("pan")) =>
        /\ eye = Vec3Add(frame.eye, PanVector)
        /\ center = Vec3Add(frame.center, PanVector)
        /\ OffsetAfter = OffsetBefore

(***************************************************************************)
(* C7 as amended.  In every updateCamera frame in which pan's condition    *)
(* holds, center is translated by the pan vector; when neither zoom's nor  *)
(* rotate's condition holds in that frame, eye is translated by the same   *)
(* vector and eye - center is the same after the frame as before.          *)
(***************************************************************************)
C7_PanOnlyKeepsOffset ==
    (CameraFrame /\ HoldsInFrame("pan")) =>
        /\ center = Vec3Add(frame.center, PanVector)
        /\ (~HoldsInFrame("zoom") /\ ~HoldsInFrame("rotate")) =>
               /\ eye = Vec3Add(frame.eye, PanVector)
               /\ OffsetAfter = OffsetBefore

\* a frame in which pan alone acted and moved the camera
C7_Witness ==
    /\ CameraFrame
    /\ frame.modes = <<"pan">>
    /\ PanVector # <<0, 0, 0>>
    /\ center # frame.center
    /\ eye # frame.eye

FrameYaw == Mat4FromRotation(frame.input.dx * (2 * frame.input.dt), frame.up)

FramePitch == Mat4FromRotation(frame.input.dy * (2 * frame.input.dt), frame.right)

FrameRotation ==
    IF HoldsInFrame("rotate") THEN Mat4Multiply(FrameYaw, FramePitch) ELSE Mat4Create

FrameTranslation ==
    IF HoldsInFrame("pan")
    THEN Mat4FromTranslation(
            Vec3ScaleAndAdd(
                Vec3ScaleAndAdd(<<0, 0, 0>>, frame.right, frame.input.dx * (5 * frame.input.dt)),
                frame.up, -frame.input.dy * (5 * frame.input.dt)))
    ELSE Mat4Create

FrameScaleFactor == Unit + frame.input.dy * frame.input.dt

FrameScale ==
    IF HoldsInFrame("zoom")
    THEN Mat4FromScaling(<<FrameScaleFactor, FrameScaleFactor, FrameScaleFactor>>)
    ELSE Mat4Create

IsPureTranslation(m) == m = Mat4FromTranslation(<<m[13], m[14], m[15]>>)

C9_NodeComposition ==
    (NodeFrame /\ ModesThatHold # <<>>) =>
        /\ scene.transformation =
              Mat4Multiply(
                  Mat4Multiply(FrameRotation, Mat4Multiply(FrameTranslation, frame.transformation)),
                  FrameScale)
        /\ (ModesThatHold = <<"zoom">> /\ IsPureTranslation(frame.transformation)) =>
              /\ scene.transformation[13] = frame.transformation[13]
              /\ scene.transformation[14] = frame.transformation[14]
              /\ scene.transformation[15] = frame.transformation[15]
              /\ scene.transformation[1] = FrameScaleFactor
              /\ scene.transformation[6] = FrameScaleFactor
              /\ scene.transformation[11] = FrameScaleFactor

\* a frame in which all three modes changed a node that was already placed
C9_Witness ==
    /\ NodeFrame
    /\ frame.modes = <<"scale", "rotate", "translate">>
    /\ frame.transformation # Mat4Create
    /\ FrameRotation # Mat4Create
    /\ FrameTranslation # Mat4Create
    /\ scene.transformation # frame.transformation

\* a scale-only frame on a node placed by a pure translation
C9_ScaleOnlyReached ==
    /\ NodeFrame
    /\ frame.modes = <<"scale">>
    /\ IsPureTranslation(frame.transformation)
    /\ frame.transformation # Mat4Create

(***************************************************************************)
(* C11.  Over any sequence of updateCamera frames: in a frame where no     *)
(* camera mode's condition holds, eye, center, forward, right, up and view *)
(* are unchanged and nothing is pushed to the uniform sink; in a frame     *)
(* where at least one condition holds, forward, right and up are           *)
(* recomputed from the eye and center the frame ends with, view is the     *)
(* look-at matrix of that eye, center and up, and view is pushed to slot   *)
(* 'u_v' exactly once.                                                     *)
(***************************************************************************)
C11_DirtyFrames ==
    CameraFrame =>
        IF ModesThatHold = <<>>
        THEN /\ eye = frame.eye
             /\ center = frame.center
             /\ forward = frame.forward
             /\ right = frame.right
             /\ up = frame.up
             /\ view = frame.view
             /\ sink = frame.sink
        ELSE /\ forward = Vec3Normalize(Vec3Sub(eye, center))
             /\ right = Vec3Normalize(Vec3Cross(<<0, Unit, 0>>, forward))
             /\ up = Vec3Normalize(Vec3Cross(forward, right))
             /\ view = Mat4LookAt(eye, center, up)
             /\ Len(sink) = Len(frame.sink) + 1
             /\ SubSeq(sink, 1, Len(frame.sink)) = frame.sink
             /\ sink[Len(sink)] = [slot |-> "u_v", value |-> view]

\* an idle frame that follows a frame which moved the camera and pushed its view
C11_Witness ==
    /\ CameraFrame
    /\ ModesThatHold = <<>>
    /\ frames >= 2
    /\ Len(sink) = 3
    /\ sink[3].slot = "u_v"
    /\ sink[3].value # sink[1].value
    /\ view = sink[3].value
    /\ eye # InitEye

\* a frame that moved the camera: new basis, new view, one push
C11_DirtyReached ==
    /\ CameraFrame
    /\ ModesThatHold # <<>>
    /\ view # frame.view
    /\ forward # frame.forward
    /\ Len(sink) = Len(frame.sink) + 1

====
